---------------------------- MODULE Spec2Model ----------------------------
(***************************************************************************)
(* Model of core/BankAccount.py and core/Operations.py: bank accounts and  *)
(* the execute/undo protocol of DepositOperation, WithdrawalOperation and  *)
(* InterestAccrualOperation.                                               *)
(*                                                                         *)
(* Objects live in two heaps (accounts, operations); an object is a        *)
(* function from attribute names to values, and a private name __x used    *)
(* inside class C is the attribute _C__x (Python name mangling, Mangle).   *)
(* Reading an attribute an object does not have raises AttributeError.     *)
(* Decimal values are modelled by integers (Decimal is exact, no width).   *)
(*                                                                         *)
(* Both constructors increment a module-level counter without a `global`   *)
(* statement (BankAccount.py:27, Operations.py:19), which raises           *)
(* UnboundLocalError, so a constructor call with valid arguments creates   *)
(* nothing.  To check the methods at all, Init postulates a heap of        *)
(* objects carrying exactly the attributes the constructors' assignments   *)
(* would give them (BankAccount.py:28-33, Operations.py:20-23, 84-85,      *)
(* 154-155, 219); the constructor actions themselves are modelled as the   *)
(* code runs them.  (The two modules also import each other with           *)
(* `from ... import`, so neither can be imported as shipped; the model     *)
(* starts after the class definitions.)                                    *)
(***************************************************************************)
EXTENDS Integers, Sequences, FiniteSets, TLC

VARIABLES id_counter, operation_id_counter, accounts, operations,
          call, outcome, pre

vars == <<id_counter, operation_id_counter, accounts, operations,
          call, outcome, pre>>

---------------------------------------------------------------------------
(* Bounds of the model *)
\* accounts in the postulated heap
NumAccounts == 2
\* operations in the postulated heap
NumOps == 2
\* Decimal amounts and rates range up to MaxValue
MaxValue == 1
\* a deposit into a non-empty account is not explored beyond this balance
MaxBalance == 2

---------------------------------------------------------------------------
(* Argument values: a value is [type, v]; isinstance looks at type only *)
Val(t, v) == [type |-> t, v |-> v]

IsInstance(x, cls) == x.type = cls

ValueArgs == {Val("Decimal", MaxValue), Val("int", 1)}
UserArgs == {Val("User", 1), Val("NoneType", 0)}
AccountArgs == {Val("BankAccount", a) : a \in 1..Len(accounts)}
                  \cup {Val("NoneType", 0)}
ContentArgs == {"salary"}

(* Name mangling of a private name inside the body of class cls *)
Mangle(cls, name) ==
    CASE cls = "Operation" /\ name = "__id" -> "_Operation__id"
      [] cls = "Operation" /\ name = "__status" -> "_Operation__status"
      [] cls = "Operation" /\ name = "__content" -> "_Operation__content"
      [] cls = "DepositOperation" /\ name = "__status"
            -> "_DepositOperation__status"
      [] cls = "DepositOperation" /\ name = "__bank_account"
            -> "_DepositOperation__bank_account"
      [] cls = "DepositOperation" /\ name = "__value"
            -> "_DepositOperation__value"
      [] cls = "WithdrawalOperation" /\ name = "__status"
            -> "_WithdrawalOperation__status"
      [] cls = "WithdrawalOperation" /\ name = "__bank_account"
            -> "_WithdrawalOperation__bank_account"
      [] cls = "WithdrawalOperation" /\ name = "__value"
            -> "_WithdrawalOperation__value"
      [] cls = "BankAccount" /\ name = "__id" -> "_BankAccount__id"
      [] cls = "BankAccount" /\ name = "__user" -> "_BankAccount__user"

HasAttr(obj, name) == name \in DOMAIN obj

SetAttr(obj, name, val) ==
    [n \in (DOMAIN obj) \cup {name} |-> IF n = name THEN val ELSE obj[n]]

(* The class whose methods an operation of class cls runs *)
MethodClass(cls) ==
    IF cls = "InterestAccrualOperation" THEN "DepositOperation" ELSE cls

(* Names a function declares `global`: none in either file *)
GlobalNames(func) == {}

---------------------------------------------------------------------------
(* Objects as the constructors' assignments leave them *)

BankAccountObject(id, user) ==
    (Mangle("BankAccount", "__id") :> id)
    @@ (Mangle("BankAccount", "__user") :> user)
    @@ ("_balance" :> 0)
    @@ ("_operations_history" :> <<>>)

(* OperationObject with the wrong initial status letter *)
OperationObject_StartsDone(cls, id, content) ==
    ("__class__" :> cls)
    @@ (Mangle("Operation", "__id") :> id)
    @@ (Mangle("Operation", "__status") :> "D")
    @@ (Mangle("Operation", "__content") :> content)

OperationObject(cls, id, content) ==
    ("__class__" :> cls)
    @@ (Mangle("Operation", "__id") :> id)
    @@ (Mangle("Operation", "__status") :> "I")
    @@ (Mangle("Operation", "__content") :> content)

DepositObject(cls, id, bank_account, value, content) ==
    OperationObject(cls, id, content)
    @@ (Mangle("DepositOperation", "__bank_account") :> bank_account)
    @@ (Mangle("DepositOperation", "__value") :> value)

WithdrawalObject(id, bank_account, value, content) ==
    OperationObject("WithdrawalOperation", id, "")
    @@ (Mangle("WithdrawalOperation", "__bank_account") :> bank_account)
    @@ (Mangle("WithdrawalOperation", "__value") :> value)

---------------------------------------------------------------------------
(* Accessors *)

Operation_id(self) == operations[self][Mangle("Operation", "__id")]

Operation_status(self) == operations[self][Mangle("Operation", "__status")]

Operation_content(self) == operations[self][Mangle("Operation", "__content")]

Operation_bank_account(self) ==
    operations[self][Mangle(MethodClass(operations[self]["__class__"]),
                            "__bank_account")]

Operation_value(self) ==
    operations[self][Mangle(MethodClass(operations[self]["__class__"]),
                            "__value")]

BankAccount_id(a) == accounts[a][Mangle("BankAccount", "__id")]

BankAccount_balance(a) == accounts[a]["_balance"]

ClassOf(self) == operations[self]["__class__"]

(* The deposits explored: any deposit into an empty account, and          *)
(* otherwise those that leave the balance within MaxBalance               *)
Explored(acc, accs) ==
    \/ BankAccount_balance(acc) = 0
    \/ accs[acc]["_balance"] <= MaxBalance

---------------------------------------------------------------------------
(* End of a call: the heaps it leaves, what it returned or raised *)
NoCall == [method |-> "none", self |-> 0, args |-> <<>>]

Finish(c, accs, ops, idc, opc, returned, raised, printed) ==
    /\ call' = c
    /\ pre' = [accounts |-> accounts, operations |-> operations]
    /\ accounts' = accs
    /\ operations' = ops
    /\ id_counter' = idc
    /\ operation_id_counter' = opc
    /\ outcome' = [returned |-> returned, raised |-> raised,
                   printed |-> printed]

Returns(c, accs, ops, returned, printed) ==
    Finish(c, accs, ops, id_counter, operation_id_counter,
           returned, "none", printed)

Raises(c, accs, ops, exc) ==
    Finish(c, accs, ops, id_counter, operation_id_counter,
           "nothing", exc, FALSE)

---------------------------------------------------------------------------
(* Constructors *)

BankAccount_init(user) ==
    LET c == [method |-> "BankAccount.__init__", self |-> 0,
              args |-> <<user>>]
    IN IF ~IsInstance(user, "User")
       THEN Raises(c, accounts, operations, "ValueError")
       ELSE IF "id_counter" \notin GlobalNames("BankAccount.__init__")
       THEN Raises(c, accounts, operations, "UnboundLocalError")
       ELSE Finish(c,
                   Append(accounts, BankAccountObject(id_counter + 1, user.v)),
                   operations, id_counter + 1, operation_id_counter,
                   "None", "none", FALSE)

(* DepositOperation.__init__ without its isinstance check of value *)
DepositOperation_init_NoValueCheck(c, cls, bank_account, value, content) ==
    IF ~IsInstance(bank_account, "BankAccount")
    THEN Raises(c, accounts, operations, "ValueError")
    ELSE IF "operation_id_counter" \notin GlobalNames("Operation.__init__")
    THEN Raises(c, accounts, operations, "UnboundLocalError")
    ELSE Finish(c, accounts,
                Append(operations,
                       DepositObject(cls, operation_id_counter + 1,
                                     bank_account.v, value.v, content)),
                id_counter, operation_id_counter + 1, "None", "none", FALSE)

(* DepositOperation.__init__ run for an object of class cls *)
DepositOperation_init(c, cls, bank_account, value, content) ==
    IF ~IsInstance(bank_account, "BankAccount")
    THEN Raises(c, accounts, operations, "ValueError")
    ELSE IF ~IsInstance(value, "Decimal")
    THEN Raises(c, accounts, operations, "ValueError")
    ELSE IF "operation_id_counter" \notin GlobalNames("Operation.__init__")
    THEN Raises(c, accounts, operations, "UnboundLocalError")
    ELSE Finish(c, accounts,
                Append(operations,
                       DepositObject(cls, operation_id_counter + 1,
                                     bank_account.v, value.v, content)),
                id_counter, operation_id_counter + 1, "None", "none", FALSE)

NewDepositOperation(bank_account, value, content) ==
    DepositOperation_init(
        [method |-> "DepositOperation.__init__", self |-> 0,
         args |-> <<bank_account, value, Val("str", content)>>],
        "DepositOperation", bank_account, value, content)

NewWithdrawalOperation(bank_account, value, content) ==
    LET c == [method |-> "WithdrawalOperation.__init__", self |-> 0,
              args |-> <<bank_account, value, Val("str", content)>>]
    IN IF ~IsInstance(bank_account, "BankAccount")
       THEN Raises(c, accounts, operations, "ValueError")
       ELSE IF ~IsInstance(value, "Decimal")
       THEN Raises(c, accounts, operations, "ValueError")
       ELSE IF "operation_id_counter" \notin GlobalNames("Operation.__init__")
       THEN Raises(c, accounts, operations, "UnboundLocalError")
       ELSE Finish(c, accounts,
                   Append(operations,
                          WithdrawalObject(operation_id_counter + 1,
                                           bank_account.v, value.v, content)),
                   id_counter, operation_id_counter + 1,
                   "None", "none", FALSE)

NewInterestAccrualOperation(bank_account, rate) ==
    LET c == [method |-> "InterestAccrualOperation.__init__", self |-> 0,
              args |-> <<bank_account, rate>>]
    IN IF ~IsInstance(bank_account, "BankAccount")
       THEN Raises(c, accounts, operations, "ValueError")
       ELSE IF ~IsInstance(rate, "Decimal")
       THEN Raises(c, accounts, operations, "ValueError")
       ELSE DepositOperation_init(
                c, "InterestAccrualOperation", bank_account,
                Val("Decimal", rate.v * BankAccount_balance(bank_account.v)),
                "")

---------------------------------------------------------------------------
(* execute and undo *)

(* DepositOperation.execute inserting at the front of the account's        *)
(* _operations_history instead of appending                                *)
DepositOperation_execute_InsertsFirst(self) ==
    LET c == [method |-> "execute", self |-> self, args |-> <<>>]
        acc == Operation_bank_account(self)
        accs1 == [accounts EXCEPT
                    ![acc]["_balance"] = @ + Operation_value(self)]
    IN /\ MethodClass(ClassOf(self)) = "DepositOperation"
       /\ IF Operation_status(self) # "I"
          THEN Returns(c, accounts, operations, "False", FALSE)
          ELSE /\ Explored(acc, accs1)
               /\ Returns(c,
                          [accs1 EXCEPT ![acc]["_operations_history"] =
                                            <<self>> \o @],
                          [operations EXCEPT ![self] =
                              SetAttr(@, Mangle("DepositOperation",
                                                "__status"), "D")],
                          "True", FALSE)

(* DepositOperation.execute appending to _operations_history, the          *)
(* attribute the account has; the status assignment is as in the code      *)
DepositOperation_execute_AppendsToHistory(self) ==
    LET c == [method |-> "execute", self |-> self, args |-> <<>>]
        acc == Operation_bank_account(self)
        accs1 == [accounts EXCEPT
                    ![acc]["_balance"] = @ + Operation_value(self)]
    IN /\ MethodClass(ClassOf(self)) = "DepositOperation"
       /\ IF Operation_status(self) # "I"
          THEN Returns(c, accounts, operations, "False", FALSE)
          ELSE /\ Explored(acc, accs1)
               /\ Returns(c,
                          [accs1 EXCEPT ![acc]["_operations_history"] =
                                            Append(@, self)],
                          [operations EXCEPT ![self] =
                              SetAttr(@, Mangle("DepositOperation",
                                                "__status"), "D")],
                          "True", FALSE)

DepositOperation_execute(self) ==
    LET c == [method |-> "execute", self |-> self, args |-> <<>>]
        acc == Operation_bank_account(self)
        accs1 == [accounts EXCEPT
                    ![acc]["_balance"] = @ + Operation_value(self)]
    IN /\ MethodClass(ClassOf(self)) = "DepositOperation"
       /\ IF Operation_status(self) # "I"
          THEN Returns(c, accounts, operations, "False", FALSE)
          ELSE /\ Explored(acc, accs1)
               /\ IF ~HasAttr(accs1[acc], "_operation_history")
                  THEN Raises(c, accs1, operations, "AttributeError")
                  ELSE Returns(c,
                          [accs1 EXCEPT ![acc]["_operation_history"] =
                                            Append(@, self)],
                          [operations EXCEPT ![self] =
                              SetAttr(@, Mangle("DepositOperation",
                                                "__status"), "D")],
                          "True", FALSE)

DepositOperation_undo(self) ==
    LET c == [method |-> "undo", self |-> self, args |-> <<>>]
        acc == Operation_bank_account(self)
        accs1 == [accounts EXCEPT
                    ![acc]["_balance"] = @ - Operation_value(self)]
    IN /\ MethodClass(ClassOf(self)) = "DepositOperation"
       /\ IF Operation_status(self) # "D"
          THEN Returns(c, accounts, operations, "False", FALSE)
          ELSE Returns(c, accs1,
                       [operations EXCEPT ![self] =
                           SetAttr(@, Mangle("DepositOperation", "__status"),
                                   "U")],
                       "True", accs1[acc]["_balance"] < 0)

WithdrawalOperation_execute(self) ==
    LET c == [method |-> "execute", self |-> self, args |-> <<>>]
        acc == Operation_bank_account(self)
        accs1 == [accounts EXCEPT
                    ![acc]["_balance"] = @ - Operation_value(self)]
    IN /\ MethodClass(ClassOf(self)) = "WithdrawalOperation"
       /\ IF Operation_status(self) # "I"
          THEN Returns(c, accounts, operations, "False", FALSE)
          ELSE IF BankAccount_balance(acc) - Operation_value(self) < 0
          THEN Returns(c, accounts,
                       [operations EXCEPT ![self] =
                           SetAttr(@, Mangle("WithdrawalOperation",
                                             "__status"), "E")],
                       "False", FALSE)
          ELSE IF ~HasAttr(accs1[acc], "_operation_history")
          THEN Raises(c, accs1, operations, "AttributeError")
          ELSE Returns(c,
                       [accs1 EXCEPT ![acc]["_operation_history"] =
                                         Append(@, self)],
                       [operations EXCEPT ![self] =
                           SetAttr(@, Mangle("WithdrawalOperation",
                                             "__status"), "D")],
                       "True", FALSE)

(* WithdrawalOperation.undo refusing only an operation already undone *)
WithdrawalOperation_undo_GuardUndone(self) ==
    LET c == [method |-> "undo", self |-> self, args |-> <<>>]
        acc == Operation_bank_account(self)
    IN /\ MethodClass(ClassOf(self)) = "WithdrawalOperation"
       /\ IF Operation_status(self) = "U"
          THEN Returns(c, accounts, operations, "False", FALSE)
          ELSE Returns(c,
                       [accounts EXCEPT
                          ![acc]["_balance"] = @ + Operation_value(self)],
                       [operations EXCEPT ![self] =
                           SetAttr(@, Mangle("WithdrawalOperation",
                                             "__status"), "U")],
                       "True", FALSE)

WithdrawalOperation_undo(self) ==
    LET c == [method |-> "undo", self |-> self, args |-> <<>>]
        acc == Operation_bank_account(self)
    IN /\ MethodClass(ClassOf(self)) = "WithdrawalOperation"
       /\ IF Operation_status(self) # "D"
          THEN Returns(c, accounts, operations, "False", FALSE)
          ELSE Returns(c,
                       [accounts EXCEPT
                          ![acc]["_balance"] = @ + Operation_value(self)],
                       [operations EXCEPT ![self] =
                           SetAttr(@, Mangle("WithdrawalOperation",
                                             "__status"), "U")],
                       "True", FALSE)

---------------------------------------------------------------------------
(* The postulated heap: NumAccounts fresh accounts, then NumOps operations  *)
(* constructed on them, none executed yet.                                 *)

OpShapes ==
    [cls : {"DepositOperation"}, account : 1..NumAccounts,
     value : 1..MaxValue, content : ContentArgs]
    \cup [cls : {"WithdrawalOperation"}, account : 1..NumAccounts,
          value : 1..MaxValue, content : {""}]
    \cup [cls : {"InterestAccrualOperation"}, account : 1..NumAccounts,
          value : {r * 0 : r \in 1..MaxValue}, content : {""}]

ShapedObject(id, s) ==
    IF s.cls = "WithdrawalOperation"
    THEN WithdrawalObject(id, s.account, s.value, s.content)
    ELSE DepositObject(s.cls, id, s.account, s.value, s.content)

(* The accounts are interchangeable, so they are numbered in the order the *)
(* operations first use them.                                              *)
FirstUseOrder(f) ==
    \A i \in DOMAIN f :
        \/ f[i].account = 1
        \/ \E j \in 1..(i - 1) : f[j].account >= f[i].account - 1

(* The operations of the concrete scenario: on the first account a deposit *)
(* of 100, a withdrawal of 150 and a withdrawal of 40.                     *)
ScenarioOperations ==
    << DepositObject("DepositOperation", 1, 1, 100, ""),
       WithdrawalObject(2, 1, 150, ""),
       WithdrawalObject(3, 1, 40, "") >>

Init ==
    /\ id_counter = NumAccounts
    /\ accounts = [i \in 1..NumAccounts |-> BankAccountObject(i, 1)]
    /\ \/ \E f \in [1..NumOps -> OpShapes] :
             /\ FirstUseOrder(f)
             /\ operations = [i \in 1..NumOps |-> ShapedObject(i, f[i])]
       \/ operations = ScenarioOperations
    /\ operation_id_counter = Len(operations)
    /\ call = NoCall
    /\ outcome = [returned |-> "nothing", raised |-> "none",
                  printed |-> FALSE]
    /\ pre = [accounts |-> accounts, operations |-> operations]

Next ==
    \/ \E user \in UserArgs : BankAccount_init(user)
    \/ \E a \in AccountArgs, v \in ValueArgs, s \in ContentArgs :
          NewDepositOperation(a, v, s)
    \/ \E a \in AccountArgs, v \in ValueArgs, s \in ContentArgs :
          NewWithdrawalOperation(a, v, s)
    \/ \E a \in AccountArgs, r \in ValueArgs :
          NewInterestAccrualOperation(a, r)
    \/ \E self \in 1..Len(operations) : DepositOperation_execute(self)
    \/ \E self \in 1..Len(operations) : DepositOperation_undo(self)
    \/ \E self \in 1..Len(operations) : WithdrawalOperation_execute(self)
    \/ \E self \in 1..Len(operations) : WithdrawalOperation_undo(self)

Spec == Init /\ [][Next]_vars

---------------------------------------------------------------------------
(* The last call and the heap it started from *)

Ops == 1..Len(operations)

IsExecuteOn(o) == call.method = "execute" /\ call.self = o

IsUndoOn(o) == call.method = "undo" /\ call.self = o

PreStatus(o) == pre.operations[o][Mangle("Operation", "__status")]

PreBalance(a) == pre.accounts[a]["_balance"]

PreHistory(a) == pre.accounts[a]["_operations_history"]

BankAccount_history(a) == accounts[a]["_operations_history"]

IsDeposit(o) == MethodClass(ClassOf(o)) = "DepositOperation"

IsWithdrawal(o) == ClassOf(o) = "WithdrawalOperation"

ValidOperationArgs ==
    /\ call.method \in {"DepositOperation.__init__",
                        "WithdrawalOperation.__init__",
                        "InterestAccrualOperation.__init__"}
    /\ IsInstance(call.args[1], "BankAccount")
    /\ IsInstance(call.args[2], "Decimal")

---------------------------------------------------------------------------
(* C1: execute() on a deposit whose status is Initialized returns true,    *)
(* adds exactly the amount to the account's balance, appends exactly this  *)
(* operation to the account's history and leaves the status Done.          *)
C1_DepositExecutes ==
    \A o \in Ops :
        (IsExecuteOn(o) /\ IsDeposit(o) /\ PreStatus(o) = "I") =>
            LET a == Operation_bank_account(o)
            IN /\ outcome.returned = "True"
               /\ BankAccount_balance(a) = PreBalance(a) + Operation_value(o)
               /\ BankAccount_history(a) = Append(PreHistory(a), o)
               /\ Operation_status(o) = "D"

(* C2: each operation changes the balance through execute() at most once:  *)
(* an execute() on an operation whose previous execute() changed its       *)
(* account returns false and leaves balance and history as they were.      *)
C2_SecondExecuteIsNoOp ==
    [][\A o \in Ops :
          (/\ IsExecuteOn(o)
           /\ accounts # pre.accounts
           /\ call'.method = "execute" /\ call'.self = o)
          => (outcome'.returned = "False" /\ accounts' = accounts)]_vars

(* C3: execute() on an Initialized withdrawal whose amount exceeds the     *)
(* balance returns false, leaves balance and history unchanged, and the    *)
(* status read through the accessor becomes Failed.                       *)
C3_WithdrawalRejected ==
    \A o \in Ops :
        (/\ IsExecuteOn(o) /\ IsWithdrawal(o) /\ PreStatus(o) = "I"
         /\ Operation_value(o) > PreBalance(Operation_bank_account(o))) =>
            /\ outcome.returned = "False"
            /\ accounts = pre.accounts
            /\ Operation_status(o) = "E"

(* C4: execute() on an Initialized withdrawal whose amount is at most the  *)
(* balance returns true, subtracts exactly the amount, appends the         *)
(* operation to the history and leaves the status Done.                    *)
C4_WithdrawalExecutes ==
    \A o \in Ops :
        (/\ IsExecuteOn(o) /\ IsWithdrawal(o) /\ PreStatus(o) = "I"
         /\ Operation_value(o) <= PreBalance(Operation_bank_account(o))) =>
            LET a == Operation_bank_account(o)
            IN /\ outcome.returned = "True"
               /\ BankAccount_balance(a) = PreBalance(a) - Operation_value(o)
               /\ BankAccount_history(a) = Append(PreHistory(a), o)
               /\ Operation_status(o) = "D"

(* C5: execute() of an applicable operation (Initialized; for a           *)
(* withdrawal, amount within the balance: the executes C1 and C4 call      *)
(* successful) immediately followed by undo() on the same operation:       *)
(* undo returns true, the balance is back at its value before the          *)
(* execute, and the status is Undone.                                      *)
C5_UndoRestoresBalance ==
    [][\A o \in Ops :
          (/\ IsExecuteOn(o) /\ PreStatus(o) = "I"
           /\ IsWithdrawal(o) =>
                 Operation_value(o) <= PreBalance(Operation_bank_account(o))
           /\ call'.method = "undo" /\ call'.self = o)
          => LET a == Operation_bank_account(o)
             IN /\ outcome'.returned = "True"
                /\ accounts'[a]["_balance"] = PreBalance(a)
                /\ operations'[o][Mangle("Operation", "__status")] = "U"]_vars

(* C6: undo() on an operation whose status is not Done (Initialized,       *)
(* Failed, or already Undone) returns false and changes neither the        *)
(* balance, nor the history, nor the operation.                            *)
C6_UndoNotDoneIsNoOp ==
    \A o \in Ops :
        (IsUndoOn(o) /\ PreStatus(o) # "D") =>
            /\ outcome.returned = "False"
            /\ outcome.raised = "none"
            /\ accounts = pre.accounts
            /\ operations = pre.operations

(* reached: undo() was called on a withdrawal that execute() had rejected  *)
(* for insufficient funds, on an account a deposit had already touched     *)
C6_Witness ==
    \E o \in Ops :
        /\ IsUndoOn(o) /\ IsWithdrawal(o) /\ PreStatus(o) = "I"
        /\ HasAttr(operations[o], Mangle("WithdrawalOperation", "__status"))
        /\ BankAccount_balance(Operation_bank_account(o)) > 0
        /\ outcome.returned = "False"

(* C7: the status read through the accessor starts at Initialized and      *)
(* changes only along Initialized -> Done, Initialized -> Failed and       *)
(* Done -> Undone; Failed and Undone are never left.                       *)
LegalTransitions == {<<"I", "D">>, <<"I", "E">>, <<"D", "U">>}

C8_OperationIdsIncrease ==
    ValidOperationArgs =>
        /\ outcome.raised = "none"
        /\ Len(operations) = Len(pre.operations) + 1
        /\ \A o \in 1..Len(pre.operations) :
              Operation_id(Len(operations)) > Operation_id(o)

(* C9: constructing a BankAccount from a User succeeds and yields an       *)
(* account with balance zero, empty history and an id strictly greater     *)
(* than every earlier account's.                                           *)
C9_AccountConstructed ==
    (call.method = "BankAccount.__init__"
        /\ IsInstance(call.args[1], "User")) =>
        /\ outcome.raised = "none"
        /\ Len(accounts) = Len(pre.accounts) + 1
        /\ BankAccount_balance(Len(accounts)) = 0
        /\ BankAccount_history(Len(accounts)) = <<>>
        /\ \A a \in 1..Len(pre.accounts) :
              BankAccount_id(Len(accounts)) > BankAccount_id(a)

(* C10: InterestAccrualOperation(account, rate) built when the balance is  *)
(* b yields an operation whose amount is rate * b, and execute() on an     *)
(* interest accrual adds exactly its stored amount whatever the balance    *)
(* has become since.                                                       *)
C10_InterestAmountFrozen ==
    /\ (call.method = "InterestAccrualOperation.__init__"
           /\ ValidOperationArgs) =>
          /\ outcome.raised = "none"
          /\ Len(operations) = Len(pre.operations) + 1
          /\ Operation_value(Len(operations)) =
                call.args[2].v * PreBalance(call.args[1].v)
    /\ \A o \in Ops :
          (IsExecuteOn(o) /\ ClassOf(o) = "InterestAccrualOperation"
              /\ PreStatus(o) = "I") =>
              BankAccount_balance(Operation_bank_account(o)) =
                  PreBalance(Operation_bank_account(o)) + Operation_value(o)

(* C11: a BankAccount constructor call with a non-User, or an operation    *)
(* constructor call with a non-account or a non-Decimal, raises ValueError *)
(* and leaves both heaps exactly as they were.                             *)
InvalidConstructorArgs ==
    \/ /\ call.method = "BankAccount.__init__"
       /\ ~IsInstance(call.args[1], "User")
    \/ /\ call.method \in {"DepositOperation.__init__",
                          "WithdrawalOperation.__init__",
                          "InterestAccrualOperation.__init__"}
       /\ \/ ~IsInstance(call.args[1], "BankAccount")
          \/ ~IsInstance(call.args[2], "Decimal")

C11_InvalidArgsRejected ==
    InvalidConstructorArgs =>
        /\ outcome.raised = "ValueError"
        /\ accounts = pre.accounts
        /\ operations = pre.operations

(* reached: DepositOperation(account, 1) with an int amount was refused on *)
(* an account whose balance an execute() had already changed              *)
C11_Witness ==
    /\ call.method = "DepositOperation.__init__"
    /\ IsInstance(call.args[1], "BankAccount")
    /\ ~IsInstance(call.args[2], "Decimal")
    /\ BankAccount_balance(call.args[1].v) > 0
    /\ outcome.raised = "ValueError"

(* C12: execute() and undo() never raise; they finish and report through   *)
(* the boolean result.                                                     *)
C12_MethodsNeverRaise ==
    call.method \in {"execute", "undo"} =>
        (outcome.raised = "none" /\ outcome.returned \in {"True", "False"})

InScenario ==
    /\ Len(operations) = 3
    /\ <<Operation_value(1), Operation_value(2), Operation_value(3)>> =
           <<100, 150, 40>>

C14_Scenario ==
    InScenario =>
        /\ (IsExecuteOn(1) /\ PreBalance(1) = 0 /\ PreHistory(1) = <<>>) =>
              /\ BankAccount_balance(1) = 100
              /\ Len(BankAccount_history(1)) = 1
        /\ (IsExecuteOn(2) /\ PreBalance(1) = 100
                /\ Len(PreHistory(1)) = 1) =>
              /\ outcome.returned = "False"
              /\ BankAccount_balance(1) = 100
              /\ Len(BankAccount_history(1)) = 1
              /\ Operation_status(2) = "E"
        /\ (IsExecuteOn(3) /\ PreBalance(1) = 100
                /\ Len(PreHistory(1)) = 1) =>
              /\ BankAccount_balance(1) = 60
              /\ Len(BankAccount_history(1)) = 2
        /\ (IsUndoOn(1) /\ PreBalance(1) = 60
                /\ Len(PreHistory(1)) = 2) =>
              /\ BankAccount_balance(1) = -40
              /\ outcome.printed
              /\ Len(BankAccount_history(1)) = 2

(* C15: for a deposit or a withdrawal the content accessor returns exactly *)
(* the comment given to the constructor, and no execute() or undo()        *)
(* changes the content of any operation.                                   *)
C15_ContentKept ==
    /\ (call.method \in {"DepositOperation.__init__",
                         "WithdrawalOperation.__init__"}
           /\ ValidOperationArgs) =>
          /\ outcome.raised = "none"
          /\ Len(operations) = Len(pre.operations) + 1
          /\ Operation_content(Len(operations)) = call.args[3].v
    /\ call.method \in {"execute", "undo"} =>
          \A o \in Ops :
              Operation_content(o) =
                  pre.operations[o][Mangle("Operation", "__content")]

(* C16: once execute() on a withdrawal has been rejected for insufficient  *)
(* funds (the rejecting branch has left its mark on the operation), every  *)
(* later execute() on it returns false and changes no account, whatever    *)
(* the balance has become.                                                 *)
WasRejected(op) ==
    /\ HasAttr(op, Mangle("WithdrawalOperation", "__status"))
    /\ op[Mangle("WithdrawalOperation", "__status")] = "E"

C16_FailedNeverRetried ==
    \A o \in Ops :
        (IsExecuteOn(o) /\ WasRejected(pre.operations[o])) =>
            /\ outcome.returned = "False"
            /\ accounts = pre.accounts

(* C17: undo() right after the execute() of an applicable operation (a     *)
(* Done operation in the sense of C1 and C4) is never refused: for a       *)
(* deposit it returns true, subtracts the amount, leaves the status        *)
(* Undone and prints the warning exactly when the new balance is           *)
(* negative; for a withdrawal it returns true and prints nothing.          *)
C17_UndoOfDoneSucceeds ==
    [][\A o \in Ops :
          (/\ IsExecuteOn(o) /\ PreStatus(o) = "I"
           /\ IsWithdrawal(o) =>
                 Operation_value(o) <= PreBalance(Operation_bank_account(o))
           /\ call'.method = "undo" /\ call'.self = o)
          => LET a == Operation_bank_account(o)
                 new == accounts'[a]["_balance"]
             IN /\ outcome'.returned = "True"
                /\ IF IsWithdrawal(o)
                   THEN ~outcome'.printed
                   ELSE /\ new = BankAccount_balance(a) - Operation_value(o)
                        /\ outcome'.printed = (new < 0)]_vars

(* C18: a withdrawal that execute() rejected is in no account's history,   *)
(* and an operation constructed after it gets a strictly greater id.       *)
C18_RejectedConsumesId ==
    \A w \in 1..Len(pre.operations) :
        WasRejected(pre.operations[w]) =>
            /\ \A a \in 1..Len(accounts) :
                  \A i \in 1..Len(BankAccount_history(a)) :
                      BankAccount_history(a)[i] # w
            /\ ValidOperationArgs =>
                  /\ outcome.raised = "none"
                  /\ Len(operations) = Len(pre.operations) + 1
                  /\ Operation_id(Len(operations)) > Operation_id(w)

(* C19: every account's balance is the sum of the amounts of the deposits  *)
(* and interest accruals on it whose status is Done minus the sum of the   *)
(* amounts of the withdrawals on it whose status is Done.                  *)
RECURSIVE DoneSum(_, _)
DoneSum(a, n) ==
    IF n = 0 THEN 0
    ELSE DoneSum(a, n - 1) +
         (IF Operation_bank_account(n) = a /\ Operation_status(n) = "D"
          THEN IF IsWithdrawal(n) THEN 0 - Operation_value(n)
               ELSE Operation_value(n)
          ELSE 0)

C19_BalanceIsSumOfDone ==
    \A a \in 1..Len(accounts) :
        BankAccount_balance(a) = DoneSum(a, Len(operations))

(* C20: an account's history holds exactly the operations on that account  *)
(* whose status is Done or Undone, each once.                              *)
HistoryEntries(a) ==
    {BankAccount_history(a)[i] : i \in 1..Len(BankAccount_history(a))}

===========================================================================
